---------------------------- MODULE Spec2Model ----------------------------
(***************************************************************************)
(* Felix position monitor: the vault valuation (get_lending_position) and  *)
(* the pooled-debt accounting (get_borrow_position) of the Telegram bot    *)
(* (src/felix_telegram_bot.py) and of the command-line script              *)
(* (src/felix_positions.py).                                               *)
(*                                                                         *)
(* Python integers are unbounded and Python floats are IEEE-754 doubles.   *)
(* TLC's integers are 32 bits wide, so an integer of the program is a      *)
(* sequence of base-2^15 digits (least significant first, no leading zero  *)
(* digit, 0 is << >>) and a float is a mantissa of at most 53 bits with a  *)
(* binary exponent, rounded half-to-even as the hardware rounds.           *)
(***************************************************************************)
EXTENDS Integers, Sequences, FiniteSets, Bags, TLC

----------------------------------------------------------------------------
(* Unbounded naturals *)

Base == 2^15

RECURSIVE BigOf(_)
BigOf(n) == IF n = 0 THEN << >> ELSE <<n % Base>> \o BigOf(n \div Base)

RECURSIVE IntOf(_)
IntOf(a) == IF a = << >> THEN 0 ELSE a[1] + Base * IntOf(Tail(a))

RECURSIVE BigNorm(_)
BigNorm(a) ==
    IF a = << >> THEN a
    ELSE IF a[Len(a)] = 0 THEN BigNorm(SubSeq(a, 1, Len(a) - 1))
    ELSE a

RECURSIVE BigCmpFrom(_, _, _)
BigCmpFrom(a, b, i) ==
    IF i = 0 THEN 0
    ELSE IF a[i] < b[i] THEN -1
    ELSE IF a[i] > b[i] THEN 1
    ELSE BigCmpFrom(a, b, i - 1)

BigCmp(a, b) ==
    IF Len(a) < Len(b) THEN -1
    ELSE IF Len(a) > Len(b) THEN 1
    ELSE BigCmpFrom(a, b, Len(a))

RECURSIVE BigAddC(_, _, _)
BigAddC(a, b, c) ==
    IF a = << >> /\ b = << >> THEN (IF c = 0 THEN << >> ELSE <<c>>)
    ELSE LET x == IF a = << >> THEN 0 ELSE a[1]
             y == IF b = << >> THEN 0 ELSE b[1]
             s == x + y + c
         IN  <<s % Base>> \o BigAddC(IF a = << >> THEN a ELSE Tail(a),
                                     IF b = << >> THEN b ELSE Tail(b),
                                     s \div Base)

BigAdd(a, b) == BigAddC(a, b, 0)

RECURSIVE BigSubC(_, _, _)
BigSubC(a, b, c) ==
    IF a = << >> THEN << >>
    ELSE LET y == IF b = << >> THEN 0 ELSE b[1]
             s == a[1] - y - c
         IN  <<s % Base>> \o BigSubC(Tail(a),
                                     IF b = << >> THEN b ELSE Tail(b),
                                     IF s < 0 THEN 1 ELSE 0)

\* a - b, for a >= b
BigSub(a, b) == BigNorm(BigSubC(a, b, 0))

RECURSIVE BigMulSmallC(_, _, _)
BigMulSmallC(a, k, c) ==
    IF a = << >> THEN (IF c = 0 THEN << >> ELSE <<c>>)
    ELSE LET s == a[1] * k + c
         IN  <<s % Base>> \o BigMulSmallC(Tail(a), k, s \div Base)

\* a * k, for 0 <= k < Base
BigMulSmall(a, k) == IF k = 0 THEN << >> ELSE BigMulSmallC(a, k, 0)

BigShiftDigits(a, n) == IF a = << >> THEN a ELSE [i \in 1..n |-> 0] \o a

RECURSIVE BigMul(_, _)
BigMul(a, b) ==
    IF b = << >> \/ a = << >> THEN << >>
    ELSE BigAdd(BigMulSmall(a, b[1]), BigShiftDigits(BigMul(a, Tail(b)), 1))

\* a * 2^s
BigShl(a, s) == BigShiftDigits(BigMulSmall(a, 2^(s % 15)), s \div 15)

RECURSIVE BigDivSmallFrom(_, _, _, _)
BigDivSmallFrom(a, k, i, r) ==
    IF i = 0 THEN << >>
    ELSE LET s == r * Base + a[i]
         IN  BigDivSmallFrom(a, k, i - 1, s % k) \o <<s \div k>>

\* a \div k, for 0 < k <= Base
BigDivSmall(a, k) == BigNorm(BigDivSmallFrom(a, k, Len(a), 0))

\* a \div 2^s
BigShr(a, s) ==
    IF s \div 15 >= Len(a) THEN << >>
    ELSE BigDivSmall(SubSeq(a, s \div 15 + 1, Len(a)), 2^(s % 15))

RECURSIVE SmallBitLen(_)
SmallBitLen(n) == IF n = 0 THEN 0 ELSE 1 + SmallBitLen(n \div 2)

BigBitLen(a) == IF a = << >> THEN 0 ELSE 15 * (Len(a) - 1) + SmallBitLen(a[Len(a)])

BigOdd(a) == a # << >> /\ a[1] % 2 = 1

RECURSIVE BigQuotDigit(_, _, _)
\* the largest d <= q with d * b <= r; q is at most 2 too large (Knuth 4.3.1)
BigQuotDigit(r, b, q) ==
    IF q > 0 /\ BigCmp(BigMulSmall(b, q), r) > 0 THEN BigQuotDigit(r, b, q - 1) ELSE q

\* the quotient digit r \div b estimated from the leading digits, for r < b * Base
\* and b with its top bit set
BigQuotGuess(r, b) ==
    LET n == Len(b)
    IN  IF Len(r) < n THEN 0
        ELSE IF Len(r) = n THEN r[n] \div b[n]
        ELSE LET g == (r[n + 1] * Base + r[n]) \div b[n]
             IN  IF g > Base - 1 THEN Base - 1 ELSE g

\* one step of the long division: the digit d and what is left of r
BigDivStepWith(r, b, d) ==
    [d |-> d, r |-> IF d = 0 THEN r ELSE BigSub(r, BigMulSmall(b, d))]

BigDivStep(r, b) == BigDivStepWith(r, b, BigQuotDigit(r, b, BigQuotGuess(r, b)))

RECURSIVE BigDivModFrom(_, _, _, _)
\* long division of the digits a[1..i] into the running remainder r
BigDivModFrom(a, b, i, r) ==
    IF i = 0 THEN [q |-> << >>, r |-> r]
    ELSE LET st == BigDivStep(BigNorm(<<a[i]>> \o r), b)
             t  == BigDivModFrom(a, b, i - 1, st.r)
         IN  [q |-> t.q \o <<st.d>>, r |-> t.r]

\* [q |-> a \div b, r |-> a % b], for b # 0: both are shifted so that the top
\* bit of b's leading digit is set, and the leading digits of a that cannot
\* reach b start the remainder
BigDivModResult(t, sh) == [q |-> BigNorm(t.q), r |-> BigShr(t.r, sh)]

BigDivModShifted(an, bn, sh) ==
    BigDivModResult(BigDivModFrom(an, bn, Len(an) - Len(bn) + 1,
                                  BigNorm(SubSeq(an, Len(an) - Len(bn) + 2, Len(an)))),
                    sh)

BigDivModBy(a, b, sh) == BigDivModShifted(BigShl(a, sh), BigShl(b, sh), sh)

BigDivMod(a, b) ==
    IF BigCmp(a, b) < 0 THEN [q |-> << >>, r |-> a]
    ELSE BigDivModBy(a, b, 15 - SmallBitLen(b[Len(b)]))

\* Python's a // b on non-negative integers
BigFloorDiv(a, b) == BigDivMod(a, b).q

RECURSIVE BigPow10(_)
BigPow10(d) == IF d < 5 THEN <<10^d>> ELSE BigMulSmall(BigPow10(d - 4), 10^4)

----------------------------------------------------------------------------
(* IEEE-754 doubles: man * 2^exp with man odd (or << >> for 0.0), which is  *)
(* one record per value; inf marks float('inf'). The amounts of the program *)
(* stay far from the subnormal and overflow ranges, which are not modelled. *)

FloatZero == [inf |-> FALSE, man |-> << >>, exp |-> 0]

FloatInf == [inf |-> TRUE, man |-> << >>, exp |-> 0]

RECURSIVE SmallTrailingZeros(_)
SmallTrailingZeros(n) == IF n % 2 = 1 THEN 0 ELSE 1 + SmallTrailingZeros(n \div 2)

RECURSIVE BigTrailingZeros(_)
BigTrailingZeros(a) ==
    IF a[1] = 0 THEN 15 + BigTrailingZeros(Tail(a)) ELSE SmallTrailingZeros(a[1])

FloatShifted(m, e, tz) == [inf |-> FALSE, man |-> BigShr(m, tz), exp |-> e + tz]

FloatCanon(m, e) ==
    IF m = << >> THEN FloatZero ELSE FloatShifted(m, e, BigTrailingZeros(m))

\* (p / q) * 2^e rounded to the nearest double, ties to even
FloatDen(q, s) == IF s >= 0 THEN q ELSE BigShl(q, -s)

\* quotient and remainder of (p * 2^s) / q
FloatScaledDiv(p, q, s) == BigDivMod(IF s >= 0 THEN BigShl(p, s) ELSE p, FloatDen(q, s))

\* half is the comparison of twice the remainder with the divisor
FloatRoundsUp(half, odd) == half > 0 \/ (half = 0 /\ odd)

FloatNearest(q, e, s, d) ==
    FloatCanon(IF FloatRoundsUp(BigCmp(BigShl(d.r, 1), FloatDen(q, s)), BigOdd(d.q))
               THEN BigAdd(d.q, <<1>>) ELSE d.q,
               e - s)

\* d0 is the quotient at scale s0: it has 53 bits, or 52 and one more is taken
FloatRoundFrom(p, q, e, s0, d0) ==
    FloatNearest(q, e, IF BigBitLen(d0.q) >= 53 THEN s0 ELSE s0 + 1,
                 IF BigBitLen(d0.q) >= 53 THEN d0 ELSE FloatScaledDiv(p, q, s0 + 1))

FloatRoundAt(p, q, e, s0) == FloatRoundFrom(p, q, e, s0, FloatScaledDiv(p, q, s0))

FloatRound(p, q, e) ==
    IF p = << >> THEN FloatZero
    ELSE FloatRoundAt(p, q, e, 52 - (BigBitLen(p) - BigBitLen(q)))

\* float(n)
FloatOfInt(n) == FloatRound(n, <<1>>, 0)

\* x / y on floats, y # 0.0
FloatDiv(x, y) == FloatRound(x.man, y.man, x.exp - y.exp)

\* x * y on floats
FloatMul(x, y) == FloatRound(BigMul(x.man, y.man), <<1>>, x.exp + y.exp)

\* int(x): truncation
FloatTrunc(x) ==
    IF x.exp >= 0 THEN BigShl(x.man, x.exp) ELSE BigShr(x.man, -x.exp)

FloatIsZero(x) == ~x.inf /\ x.man = << >>

FloatPositive(x) == x.inf \/ x.man # << >>

----------------------------------------------------------------------------
(* Python arithmetic as the two programs use it *)

\* the float literal 1e18
E18 == FloatOfInt(BigPow10(18))

\* 10 ** d: an int for d >= 0, the float 10.0 ** d for d < 0
PyPow10(d) ==
    IF d >= 0
    THEN [isint |-> TRUE, int |-> BigPow10(d), flt |-> FloatOfInt(BigPow10(d))]
    ELSE [isint |-> FALSE, int |-> << >>, flt |-> FloatRound(<<1>>, BigPow10(-d), 0)]

\* n / divisor for an int n: int / int is rounded once, int / float converts n first
PyTrueDiv(n, divisor) ==
    IF divisor.isint THEN FloatRound(n, divisor.int, 0)
    ELSE FloatDiv(FloatOfInt(n), divisor.flt)

\* n / 1e18 for an int n
PyDivE18(n) == FloatDiv(FloatOfInt(n), E18)

\* int(x * 1e18) for a float x
PyIntTimesE18(x) == FloatTrunc(FloatMul(x, E18))

\* int(x * divisor) for a float x
PyIntTimes(x, divisor) == FloatTrunc(FloatMul(x, divisor.flt))

\* (a * b) // c on ints
PyMulFloorDiv(a, b, c) == BigFloorDiv(BigMul(a, b), c)

----------------------------------------------------------------------------
(* The contract reads. A read is "ok" with its value, "fails" (the call      *)
(* raises) or "absent" (the ABI has no such function: the bot's attribute   *)
(* access raises, the script's dir() probe skips it).                       *)

MaxAmount == 2

\* 447 is the least n with int(n / 1e18 * 1e18) # n
ShareAmounts == 0..MaxAmount \cup {447}

AssetAmounts == 0..MaxAmount \cup {447}

\* 6 and 18 are the configured decimals; -1 and 78 lie outside 0..77
DecimalsValues == {-1, 0, 6, 18, 78}

Reads(amounts, states) ==
    [st : {"ok"}, val : amounts] \cup [st : states \ {"ok"}, val : {0}]

\* convertToAssets(shares) of the vault: shares * num // den, its own rate
ConvertRates ==
    [st : {"ok"}, num : {1, 3}, den : {2}] \cup [st : {"fails", "absent"}, num : {0}, den : {1}]

Vaults ==
    [balanceOf       : Reads(ShareAmounts, {"ok", "fails", "absent"}),
     totalAssets     : Reads(AssetAmounts, {"ok", "fails"}),
     totalSupply     : Reads(ShareAmounts, {"ok", "fails"}),
     convertToAssets : ConvertRates]

convertToAssets(contract, shares) ==
    PyMulFloorDiv(shares, BigOf(contract.convertToAssets.num),
                  BigOf(contract.convertToAssets.den))

Error(what) == [error |-> what]

\* mutant: a read that raised is issued a second time
Read_retried(contract, fn, arg) ==
    IF contract[fn].st = "absent" THEN << >>
    ELSE IF contract[fn].st = "fails"
    THEN <<[fn |-> fn, arg |-> arg, ok |-> FALSE], [fn |-> fn, arg |-> arg, ok |-> FALSE]>>
    ELSE <<[fn |-> fn, arg |-> arg, ok |-> TRUE]>>

\* one contract read as issued: the function, its argument, whether it returned.
\* A function the ABI lacks is never called.
Read(contract, fn, arg) ==
    IF contract[fn].st = "absent" THEN << >>
    ELSE <<[fn |-> fn, arg |-> arg, ok |-> contract[fn].st = "ok"]>>

----------------------------------------------------------------------------
(* felix_telegram_bot.py: get_lending_position *)

\* shares == 0: the value is 0 and no method is recorded
bot_no_balance(head) == head @@ [assets_value |-> FloatZero]

\* the pool ratio (a * b) // c on the integers read, or the zero-supply result
bot_manual_ratio(balance_shares_wei, total_assets_wei, total_supply_wei, asset_divisor) ==
    IF BigCmp(total_supply_wei, << >>) > 0
    THEN LET assets_wei == PyMulFloorDiv(balance_shares_wei, total_assets_wei,
                                         total_supply_wei)
         IN  [assets_value |-> PyTrueDiv(assets_wei, asset_divisor),
              calculation_method |-> "manual_ratio"]
    ELSE [assets_value |-> FloatZero, calculation_method |-> "zero_supply"]

\* mutant: the converted amount is combined with the share count
bot_convert_averaged(contract, balance_shares_wei, asset_divisor) ==
    [assets_value |->
         PyTrueDiv(BigDivSmall(BigAdd(convertToAssets(contract, balance_shares_wei),
                                      balance_shares_wei), 2), asset_divisor),
     calculation_method |-> "convertToAssets"]

bot_convert(contract, balance_shares_wei, asset_divisor) ==
    [assets_value |-> PyTrueDiv(convertToAssets(contract, balance_shares_wei),
                                asset_divisor),
     calculation_method |-> "convertToAssets"]

\* mutant: the vault totals are read before the balance is tested for zero
bot_get_lending_position_totals_first(contract, asset_decimals) ==
    LET c1 == Read(contract, "balanceOf", << >>)
        c2 == c1 \o Read(contract, "totalAssets", << >>)
        c3 == c2 \o Read(contract, "totalSupply", << >>)
    IN
    IF contract.balanceOf.st # "ok"
    THEN [position |-> Error("balanceOf"), calls |-> c1]
    ELSE
    LET balance_shares_wei == BigOf(contract.balanceOf.val)
        shares == PyDivE18(balance_shares_wei)
        head == [shares_balance |-> shares]
    IN
    IF contract.totalAssets.st # "ok"
    THEN [position |-> Error("totalAssets"), calls |-> c2]
    ELSE IF contract.totalSupply.st # "ok"
    THEN [position |-> Error("totalSupply"), calls |-> c3]
    ELSE IF FloatIsZero(shares)
    THEN [position |-> bot_no_balance(head), calls |-> c3]
    ELSE
    LET total_assets_wei == BigOf(contract.totalAssets.val)
        total_supply_wei == BigOf(contract.totalSupply.val)
        asset_divisor == PyPow10(asset_decimals)
        totals == head @@
                  [vault_total_assets |-> PyTrueDiv(total_assets_wei, asset_divisor),
                   vault_total_shares |-> PyDivE18(total_supply_wei)]
        c4 == c3 \o Read(contract, "convertToAssets", balance_shares_wei)
    IN
    IF contract.convertToAssets.st = "ok"
    THEN [position |-> totals @@ bot_convert(contract, balance_shares_wei, asset_divisor),
          calls |-> c4]
    ELSE [position |-> totals @@ bot_manual_ratio(balance_shares_wei, total_assets_wei,
                                                  total_supply_wei, asset_divisor),
          calls |-> c4]

bot_get_lending_position(contract, asset_decimals) ==
    LET c1 == Read(contract, "balanceOf", << >>)
        c2 == c1 \o Read(contract, "totalAssets", << >>)
        c3 == c2 \o Read(contract, "totalSupply", << >>)
    IN
    IF contract.balanceOf.st # "ok"
    THEN [position |-> Error("balanceOf"), calls |-> c1]
    ELSE
    LET balance_shares_wei == BigOf(contract.balanceOf.val)
        shares == PyDivE18(balance_shares_wei)
        head == [shares_balance |-> shares]
    IN
    IF FloatIsZero(shares)
    THEN [position |-> bot_no_balance(head), calls |-> c1]
    ELSE IF contract.totalAssets.st # "ok"
    THEN [position |-> Error("totalAssets"), calls |-> c2]
    ELSE IF contract.totalSupply.st # "ok"
    THEN [position |-> Error("totalSupply"), calls |-> c3]
    ELSE
    LET total_assets_wei == BigOf(contract.totalAssets.val)
        total_supply_wei == BigOf(contract.totalSupply.val)
        asset_divisor == PyPow10(asset_decimals)
        totals == head @@
                  [vault_total_assets |-> PyTrueDiv(total_assets_wei, asset_divisor),
                   vault_total_shares |-> PyDivE18(total_supply_wei)]
        c4 == c3 \o Read(contract, "convertToAssets", balance_shares_wei)
    IN
    IF contract.convertToAssets.st = "ok"
    THEN [position |-> totals @@ bot_convert(contract, balance_shares_wei, asset_divisor),
          calls |-> c4]
    ELSE [position |-> totals @@ bot_manual_ratio(balance_shares_wei, total_assets_wei,
                                                  total_supply_wei, asset_divisor),
          calls |-> c4]

----------------------------------------------------------------------------
(* felix_positions.py: get_lending_position. The reads after the valuation  *)
(* (getUserPosition, the supply rate accessors) are probed with dir() and   *)
(* are not functions of an ERC-4626 vault: they add no key here.            *)

script_manual_ratio(position, balance_shares_wei, asset_divisor) ==
    IF "vault_total_assets" \in DOMAIN position /\ "vault_total_shares" \in DOMAIN position
    THEN IF FloatPositive(position.vault_total_shares)
         THEN LET total_supply_wei == PyIntTimesE18(position.vault_total_shares)
                  total_assets_wei == PyIntTimes(position.vault_total_assets, asset_divisor)
              IN  IF total_supply_wei = << >>
                  THEN Error("ZeroDivisionError")
                  ELSE position @@
                       [assets_value |->
                            PyTrueDiv(PyMulFloorDiv(balance_shares_wei, total_assets_wei,
                                                    total_supply_wei), asset_divisor),
                        calculation_method |-> "manual_ratio"]
         ELSE position @@ [assets_value |-> FloatZero]
    ELSE position

script_convert(contract, balance_shares_wei, asset_divisor) ==
    [assets_value |-> PyTrueDiv(convertToAssets(contract, balance_shares_wei),
                                asset_divisor),
     calculation_method |-> "convertToAssets"]

script_value(contract, position, asset_divisor) ==
    IF "shares_balance" \in DOMAIN position /\ FloatPositive(position.shares_balance)
    THEN LET balance_shares_wei == PyIntTimesE18(position.shares_balance)
         IN  IF contract.convertToAssets.st = "ok"
             THEN position @@ script_convert(contract, balance_shares_wei, asset_divisor)
             ELSE script_manual_ratio(position, balance_shares_wei, asset_divisor)
    ELSE position

script_get_lending_position(contract, asset_decimals) ==
    LET c1 == Read(contract, "balanceOf", << >>)
    IN
    IF contract.balanceOf.st = "fails"
    THEN [position |-> [balance_error |-> "balanceOf"], calls |-> c1]
    ELSE
    LET asset_divisor == PyPow10(asset_decimals)
        p0 == IF contract.balanceOf.st = "ok"
              THEN [shares_balance |-> PyDivE18(BigOf(contract.balanceOf.val))]
              ELSE << >>
        p1 == IF contract.totalAssets.st = "ok"
              THEN p0 @@ [vault_total_assets |->
                              PyTrueDiv(BigOf(contract.totalAssets.val), asset_divisor)]
              ELSE p0
        p2 == IF contract.totalSupply.st = "ok"
              THEN p1 @@ [vault_total_shares |->
                              PyDivE18(BigOf(contract.totalSupply.val))]
              ELSE p1
        c3 == c1 \o Read(contract, "totalAssets", << >>)
                 \o Read(contract, "totalSupply", << >>)
        valued == "shares_balance" \in DOMAIN p2 /\ FloatPositive(p2.shares_balance)
        position == script_value(contract, p2, asset_divisor)
    IN  [position |-> IF position = << >>
                      THEN [info |-> "No position data available"]
                      ELSE position,
         calls |-> IF valued
                   THEN c3 \o Read(contract, "convertToAssets",
                                   PyIntTimesE18(p2.shares_balance))
                   ELSE c3]

----------------------------------------------------------------------------
(* get_borrow_position of both files: the Morpho Blue market and the user's *)
(* position in it.                                                          *)

MarketTotals == 0..MaxAmount \cup {1000000}

BorrowShares == 0..MaxAmount \cup {500000}

Collaterals == 0..MaxAmount \cup {2000000}

BorrowDecimals == {-1, 6, 78}

Morphos ==
    [market   : [st : {"ok"}, total_borrow_assets : MarketTotals,
                 total_borrow_shares : MarketTotals]
                \cup [st : {"fails"}, total_borrow_assets : {0},
                      total_borrow_shares : {0}],
     position : [st : {"ok"}, supply_shares : {1}, borrow_shares : BorrowShares,
                 collateral : Collaterals]
                \cup [st : {"fails"}, supply_shares : {0}, borrow_shares : {0},
                      collateral : {0}]]

\* mutant: the shares are divided by the total before the multiplication
borrowed_amount_divide_first(borrow_shares_wei, total_borrow_assets, total_borrow_shares, borrow_divisor) ==
    IF BigCmp(total_borrow_shares, << >>) > 0 /\ BigCmp(borrow_shares_wei, << >>) > 0
    THEN PyTrueDiv(BigMul(BigFloorDiv(borrow_shares_wei, total_borrow_shares),
                          total_borrow_assets), borrow_divisor)
    ELSE FloatZero

\* the borrowed amount: (user_shares * total_assets) // total_shares
borrowed_amount(borrow_shares_wei, total_borrow_assets, total_borrow_shares, borrow_divisor) ==
    IF BigCmp(total_borrow_shares, << >>) > 0 /\ BigCmp(borrow_shares_wei, << >>) > 0
    THEN PyTrueDiv(PyMulFloorDiv(borrow_shares_wei, total_borrow_assets,
                                 total_borrow_shares), borrow_divisor)
    ELSE FloatZero

\* mutant: no debt is reported unbounded only when there is collateral
health_factor_needs_collateral(position) ==
    IF FloatPositive(position.borrowed) /\ FloatPositive(position.collateral)
    THEN position @@ [health_factor |-> FloatDiv(position.collateral, position.borrowed)]
    ELSE IF FloatIsZero(position.borrowed) /\ FloatPositive(position.collateral)
    THEN position @@ [health_factor |-> FloatInf]
    ELSE position

\* mutant: the ratio is taken the wrong way round
health_factor_inverted(position) ==
    IF FloatPositive(position.borrowed) /\ FloatPositive(position.collateral)
    THEN position @@ [health_factor |-> FloatDiv(position.borrowed, position.collateral)]
    ELSE IF FloatIsZero(position.borrowed)
    THEN position @@ [health_factor |-> FloatInf]
    ELSE position

\* the simplified health factor, 1:1 pricing; no key when neither branch is taken
health_factor(position) ==
    IF FloatPositive(position.borrowed) /\ FloatPositive(position.collateral)
    THEN position @@ [health_factor |-> FloatDiv(position.collateral, position.borrowed)]
    ELSE IF FloatIsZero(position.borrowed)
    THEN position @@ [health_factor |-> FloatInf]
    ELSE position

\* mutant: the share count of the borrowed computation is rebuilt from the
\* decimal share value
borrow_position_scaled_shares(contract, borrow_shares_value, collateral_divisor, borrow_divisor) ==
    LET total_borrow_assets == BigOf(contract.market.total_borrow_assets)
        total_borrow_shares == BigOf(contract.market.total_borrow_shares)
        borrow_shares_wei == PyIntTimesE18(borrow_shares_value)
        collateral_wei == BigOf(contract.position.collateral)
    IN  health_factor(
            [supply_shares |-> PyDivE18(BigOf(contract.position.supply_shares)),
             borrow_shares |-> borrow_shares_value,
             collateral |-> PyTrueDiv(collateral_wei, collateral_divisor),
             borrowed |-> borrowed_amount(borrow_shares_wei, total_borrow_assets,
                                          total_borrow_shares, borrow_divisor)])

borrow_position(contract, borrow_shares_value, collateral_divisor, borrow_divisor) ==
    LET total_borrow_assets == BigOf(contract.market.total_borrow_assets)
        total_borrow_shares == BigOf(contract.market.total_borrow_shares)
        borrow_shares_wei == BigOf(contract.position.borrow_shares)
        collateral_wei == BigOf(contract.position.collateral)
    IN  health_factor(
            [supply_shares |-> PyDivE18(BigOf(contract.position.supply_shares)),
             borrow_shares |-> borrow_shares_value,
             collateral |-> PyTrueDiv(collateral_wei, collateral_divisor),
             borrowed |-> borrowed_amount(borrow_shares_wei, total_borrow_assets,
                                          total_borrow_shares, borrow_divisor)])

borrow_reads(contract) ==
    Read(contract, "market", << >>) \o Read(contract, "position", << >>)

bot_get_borrow_position(contract, collateral_decimals, borrow_decimals, borrow_shares_decimals) ==
    IF contract.market.st # "ok"
    THEN [position |-> Error("market"), calls |-> Read(contract, "market", << >>)]
    ELSE IF contract.position.st # "ok"
    THEN [position |-> Error("position"), calls |-> borrow_reads(contract)]
    ELSE LET shares_divisor == PyPow10(borrow_shares_decimals)
         IN  [position |->
                  borrow_position(contract,
                                  PyTrueDiv(BigOf(contract.position.borrow_shares),
                                            shares_divisor),
                                  PyPow10(collateral_decimals), PyPow10(borrow_decimals)),
              calls |-> borrow_reads(contract)]

script_get_borrow_position(contract, collateral_decimals, borrow_decimals) ==
    IF contract.market.st # "ok"
    THEN [position |-> Error("market"), calls |-> Read(contract, "market", << >>)]
    ELSE IF contract.position.st # "ok"
    THEN [position |-> Error("position"), calls |-> borrow_reads(contract)]
    ELSE LET borrow_divisor == PyPow10(borrow_decimals)
         IN  [position |->
                  borrow_position(contract,
                                  PyTrueDiv(BigOf(contract.position.borrow_shares),
                                            borrow_divisor),
                                  PyPow10(collateral_decimals), borrow_divisor),
              calls |-> borrow_reads(contract)]

----------------------------------------------------------------------------
(* One valuation request: Init draws the contract state and the market's    *)
(* decimals, the action of the called function returns its result.          *)

VARIABLES call, result, pc, user_data, GLOBAL_MARKETS, chain, jobs, keyboards

vars == <<call, result, pc, user_data, GLOBAL_MARKETS, chain, jobs, keyboards>>

\* the module-level GLOBAL_MARKETS literal of the bot
InitialGlobalMarkets ==
    [lending |-> <<[name |-> "USDhl Frontier Lending", address |-> "0x9896",
                    abi_file |-> "USDhlFrontierLending.json", asset_decimals |-> 6],
                   [name |-> "USDT0 Frontier Lending", address |-> "0x66c7",
                    abi_file |-> "USDT0FrontierLending.json", asset_decimals |-> 6]>>,
     borrow |-> <<[name |-> "WHLP/USDT0 Borrow Market", morpho_address |-> "0x68e3",
                   market_id |-> "0xd4fd", abi_file |-> "MorphoBlue.json",
                   collateral_decimals |-> 6, borrow_decimals |-> 6,
                   borrow_shares_decimals |-> 18]>>]

\* one valuation is served from the contract of the request: no session data,
\* the configured markets and no chain of its own
\* nothing is scheduled in the job queue and no inline keyboard has been sent
NoJobs == jobs = << >> /\ keyboards = << >>

NoSessions ==
    /\ user_data = << >>
    /\ GLOBAL_MARKETS = InitialGlobalMarkets
    /\ chain = << >>
    /\ NoJobs

NoResult == [position |-> << >>, calls |-> << >>]

LendingCalls ==
    [op : {"lending"}, impl : {"bot", "script"}, contract : Vaults,
     asset_decimals : DecimalsValues]

BotBorrowCalls ==
    [op : {"borrow"}, impl : {"bot"}, contract : Morphos,
     collateral_decimals : BorrowDecimals, borrow_decimals : BorrowDecimals,
     borrow_shares_decimals : {6, 18}]

ScriptBorrowCalls ==
    [op : {"borrow"}, impl : {"script"}, contract : Morphos,
     collateral_decimals : BorrowDecimals, borrow_decimals : BorrowDecimals]

Init ==
    /\ \/ call \in LendingCalls
       \/ call \in BotBorrowCalls
       \/ call \in ScriptBorrowCalls
    /\ result = NoResult
    /\ pc = "ready"
    /\ NoSessions

BotLending ==
    /\ pc = "ready" /\ call.op = "lending" /\ call.impl = "bot"
    /\ result' = bot_get_lending_position(call.contract, call.asset_decimals)
    /\ pc' = "done"
    /\ UNCHANGED <<call, user_data, GLOBAL_MARKETS, chain, jobs, keyboards>>

ScriptLending ==
    /\ pc = "ready" /\ call.op = "lending" /\ call.impl = "script"
    /\ result' = script_get_lending_position(call.contract, call.asset_decimals)
    /\ pc' = "done"
    /\ UNCHANGED <<call, user_data, GLOBAL_MARKETS, chain, jobs, keyboards>>

BotBorrow ==
    /\ pc = "ready" /\ call.op = "borrow" /\ call.impl = "bot"
    /\ result' = bot_get_borrow_position(call.contract, call.collateral_decimals,
                                         call.borrow_decimals,
                                         call.borrow_shares_decimals)
    /\ pc' = "done"
    /\ UNCHANGED <<call, user_data, GLOBAL_MARKETS, chain, jobs, keyboards>>

ScriptBorrow ==
    /\ pc = "ready" /\ call.op = "borrow" /\ call.impl = "script"
    /\ result' = script_get_borrow_position(call.contract, call.collateral_decimals,
                                            call.borrow_decimals)
    /\ pc' = "done"
    /\ UNCHANGED <<call, user_data, GLOBAL_MARKETS, chain, jobs, keyboards>>

Next == BotLending \/ ScriptLending \/ BotBorrow \/ ScriptBorrow

Spec == Init /\ [][Next]_vars

----------------------------------------------------------------------------
(* Two valuations, one after the other, of a request and of its twin, which *)
(* differs in a single input: the share balance for a vault, the            *)
(* borrow-share decimals for the bot's borrow valuation, the collateral     *)
(* decimals for the script's, which has no borrow-share decimals.           *)
(* result.twin is the position of the second valuation.                     *)

TwinVaults ==
    {v \in Vaults : v.balanceOf.st = "ok" /\ v.totalAssets.st = "ok"
                    /\ v.totalSupply.st = "ok"}

TwinMorphos == {m \in Morphos : m.market.st = "ok" /\ m.position.st = "ok"}

TwinLendingCalls ==
    [op : {"lending"}, impl : {"bot", "script"}, contract : TwinVaults,
     asset_decimals : {6, 18}, twin_balance : ShareAmounts]

TwinBorrowCalls ==
    [op : {"borrow"}, impl : {"bot", "script"}, contract : TwinMorphos,
     collateral_decimals : {6, 18}, borrow_decimals : {6},
     borrow_shares_decimals : {0, 18, 77}, twin_decimals : {0, 6, 77}]

TwinVault(contract, balance) == [contract EXCEPT !.balanceOf.val = balance]

TwinInit ==
    /\ \/ call \in TwinLendingCalls
       \/ call \in TwinBorrowCalls
    /\ result = NoResult
    /\ pc = "ready"
    /\ NoSessions

\* the function is called on the request first, then on its twin
TwinContract == IF pc = "ready" THEN call.contract ELSE TwinVault(call.contract, call.twin_balance)

TwinShareDecimals == IF pc = "ready" THEN call.borrow_shares_decimals ELSE call.twin_decimals

TwinCollateralDecimals == IF pc = "ready" THEN call.collateral_decimals ELSE call.twin_decimals

\* the first valuation is the result, the position of the second is kept next to it
TwinReturns(valuation) ==
    /\ result' = IF pc = "ready" THEN valuation
                 ELSE [position |-> result.position, calls |-> result.calls,
                       twin |-> valuation.position]
    /\ pc' = IF pc = "ready" THEN "second" ELSE "done"
    /\ UNCHANGED <<call, user_data, GLOBAL_MARKETS, chain, jobs, keyboards>>

TwinBotLending ==
    /\ pc \in {"ready", "second"} /\ call.op = "lending" /\ call.impl = "bot"
    /\ TwinReturns(bot_get_lending_position(TwinContract, call.asset_decimals))

TwinScriptLending ==
    /\ pc \in {"ready", "second"} /\ call.op = "lending" /\ call.impl = "script"
    /\ TwinReturns(script_get_lending_position(TwinContract, call.asset_decimals))

TwinBotBorrow ==
    /\ pc \in {"ready", "second"} /\ call.op = "borrow" /\ call.impl = "bot"
    /\ TwinReturns(bot_get_borrow_position(call.contract, call.collateral_decimals,
                                           call.borrow_decimals, TwinShareDecimals))

TwinScriptBorrow ==
    /\ pc \in {"ready", "second"} /\ call.op = "borrow" /\ call.impl = "script"
    /\ TwinReturns(script_get_borrow_position(call.contract, TwinCollateralDecimals,
                                              call.borrow_decimals))

TwinNext == TwinBotLending \/ TwinScriptLending \/ TwinBotBorrow \/ TwinScriptBorrow

TwinSpec == TwinInit /\ [][TwinNext]_vars

----------------------------------------------------------------------------
(* The batch: fetch_positions of the bot and fetch_all_positions of the     *)
(* script value every configured market in turn. user_data holds the chat   *)
(* sessions, GLOBAL_MARKETS the bot's shared market lists, chain what the   *)
(* ABI files and the contracts answer while the requests are served.        *)

\* the MARKETS literal of the script
MARKETS ==
    [lending |-> InitialGlobalMarkets.lending,
     borrow |-> <<[name |-> "WHLP/USDT0 Borrow Market", morpho_address |-> "0x68e3",
                   market_id |-> "0xd4fd", abi_file |-> "MorphoBlue.json",
                   collateral_decimals |-> 18, borrow_decimals |-> 6]>>]

Chats == {1, 2}

\* chat_id=None, the default of fetch_positions
NoChat == 0

\* "bad" is a string to_checksum_address rejects
Addresses == {"0xA", "0xB", "bad"}

USER_ADDRESS == "0xA"

MaxTime == 2

\* the session record /start creates, before any market was added
started_session == [addresses |-> << >>, active_address |-> "None", monitoring |-> FALSE, selected_markets |-> [lending |-> << >>, borrow |-> << >>]]

\* the market /addmarket <name> 0xc0de 18 appends; every custom market is
\* given the ABI file of the first global market
custom_market(name) == [name |-> name, address |-> "0xc0de", abi_file |-> "USDhlFrontierLending.json", asset_decimals |-> 18, custom |-> TRUE]

\* the session record /addmarket creates and appends to
market_session(name) == [addresses |-> << >>, active_address |-> "None", monitoring |-> FALSE, custom_markets |-> [lending |-> <<custom_market(name)>>, borrow |-> << >>]]

\* the session of one chat: none, started, or with its own custom market
Session(chat_id, kind) ==
    IF kind = "none" THEN << >>
    ELSE IF kind = "started" THEN [c \in {chat_id} |-> started_session]
    ELSE [c \in {chat_id} |-> market_session(IF chat_id = 1 THEN "Custom 1" ELSE "Custom 2")]

AbiFiles == {"USDhlFrontierLending.json", "USDT0FrontierLending.json", "MorphoBlue.json"}

VaultAddresses == {"0x9896", "0x66c7", "0xc0de"}

\* a vault that values the user's share, and one whose totalAssets raises
BatchVaults ==
    {v \in Vaults : /\ v.balanceOf = [st |-> "ok", val |-> 1]
                    /\ v.totalSupply = [st |-> "ok", val |-> 2]
                    /\ v.totalAssets \in {[st |-> "ok", val |-> 447], [st |-> "fails", val |-> 0]}
                    /\ v.convertToAssets.st = "absent"}

\* a market with a debt of the user, and one whose position read raises
BatchMorphos ==
    {m \in Morphos : /\ m.market.st = "ok"
                     /\ m.market.total_borrow_assets = 2 /\ m.market.total_borrow_shares = 2
                     /\ \/ m.position.st = "fails"
                        \/ m.position.st = "ok" /\ m.position.borrow_shares = 1
                           /\ m.position.collateral = 2}

Chains == [abi : [AbiFiles -> BOOLEAN], vault : [VaultAddresses -> BatchVaults], morpho : BatchMorphos]

\* the vault as user_addr reads it: USER_ADDRESS holds the shares, any other
\* address holds none
vault_contract(market, user_addr) ==
    IF user_addr = USER_ADDRESS THEN chain.vault[market.address]
    ELSE [chain.vault[market.address] EXCEPT !.balanceOf.val = 0]

morpho_contract(user_addr) ==
    IF user_addr = USER_ADDRESS \/ chain.morpho.position.st # "ok" THEN chain.morpho
    ELSE [chain.morpho EXCEPT !.position.borrow_shares = 0, !.position.collateral = 0]

\* load_abi raises when the file cannot be read
load_abi(filename) == chain.abi[filename]

\* one step of the lending loop of fetch_positions: the try block or its except
bot_lending_entry(market, checksum_addr) ==
    [name |-> market.name, address |-> market.address,
     data |-> IF load_abi(market.abi_file)
              THEN bot_get_lending_position(vault_contract(market, checksum_addr),
                                            market.asset_decimals).position
              ELSE Error("load_abi")]

bot_borrow_entry(market, checksum_addr) ==
    [name |-> market.name, market_id |-> market.market_id,
     data |-> IF load_abi(market.abi_file)
              THEN bot_get_borrow_position(morpho_contract(checksum_addr),
                                           market.collateral_decimals, market.borrow_decimals,
                                           market.borrow_shares_decimals).position
              ELSE Error("load_abi")]

script_lending_entry(market) ==
    [name |-> market.name, address |-> market.address,
     data |-> IF load_abi(market.abi_file)
              THEN script_get_lending_position(vault_contract(market, USER_ADDRESS),
                                               market.asset_decimals).position
              ELSE Error("load_abi")]

script_borrow_entry(market) ==
    [name |-> market.name, market_id |-> market.market_id,
     data |-> IF load_abi(market.abi_file)
              THEN script_get_borrow_position(morpho_contract(USER_ADDRESS),
                                              market.collateral_decimals,
                                              market.borrow_decimals).position
              ELSE Error("load_abi")]

\* the chat's custom markets of one kind, if its session has any
custom_markets(chat_id, kind) ==
    IF chat_id \in DOMAIN user_data
    THEN IF "custom_markets" \in DOMAIN user_data[chat_id]
         THEN user_data[chat_id].custom_markets[kind]
         ELSE << >>
    ELSE << >>

\* mutant: the copies are extended by the custom markets of every chat
get_markets_for_user_of_all_chats(chat_id) ==
    [markets |-> [lending |-> GLOBAL_MARKETS.lending \o custom_markets(1, "lending")
                                  \o custom_markets(2, "lending"),
                  borrow |-> GLOBAL_MARKETS.borrow \o custom_markets(1, "borrow")
                                 \o custom_markets(2, "borrow")],
     GLOBAL_MARKETS |-> GLOBAL_MARKETS]

\* mutant: the global lists are extended themselves, not copies of them
get_markets_for_user_no_copy(chat_id) ==
    LET markets == [lending |-> GLOBAL_MARKETS.lending \o custom_markets(chat_id, "lending"),
                    borrow |-> GLOBAL_MARKETS.borrow \o custom_markets(chat_id, "borrow")]
    IN  [markets |-> markets, GLOBAL_MARKETS |-> markets]

\* the copies of the global lists extended by the chat's custom markets;
\* GLOBAL_MARKETS is what the global lists are afterwards
get_markets_for_user(chat_id) ==
    [markets |-> [lending |-> GLOBAL_MARKETS.lending \o custom_markets(chat_id, "lending"),
                  borrow |-> GLOBAL_MARKETS.borrow \o custom_markets(chat_id, "borrow")],
     GLOBAL_MARKETS |-> GLOBAL_MARKETS]

\* the two loops of fetch_positions over the markets it was given
bot_results(markets, checksum_addr, now) ==
    [lending |-> [i \in DOMAIN markets.lending |->
                      bot_lending_entry(markets.lending[i], checksum_addr)],
     borrow |-> [i \in DOMAIN markets.borrow |->
                     bot_borrow_entry(markets.borrow[i], checksum_addr)],
     timestamp |-> now]

\* what fetch_positions returns, and the global lists it leaves
fetch_positions(address, chat_id, now) ==
    IF address = "bad"
    THEN [results |-> Error("Invalid address format"), GLOBAL_MARKETS |-> GLOBAL_MARKETS]
    ELSE LET got == IF chat_id # NoChat THEN get_markets_for_user(chat_id)
                    ELSE [markets |-> GLOBAL_MARKETS, GLOBAL_MARKETS |-> GLOBAL_MARKETS]
         IN  [results |-> bot_results(got.markets, address, now),
              GLOBAL_MARKETS |-> got.GLOBAL_MARKETS]

fetch_all_positions ==
    [lending |-> [i \in DOMAIN MARKETS.lending |-> script_lending_entry(MARKETS.lending[i])],
     borrow |-> [i \in DOMAIN MARKETS.borrow |-> script_borrow_entry(MARKETS.borrow[i])]]

BotFetchCalls == [op : {"fetch"}, impl : {"bot"}, chat_id : Chats \cup {NoChat}, address : Addresses]

ScriptFetchCalls == [op : {"fetch"}, impl : {"script"}, chat_id : {NoChat}, address : {USER_ADDRESS}]

\* a request as it arrives at time now
Arrives(now) ==
    \E request \in BotFetchCalls \cup ScriptFetchCalls : call' = request @@ [now |-> now]

BatchInit ==
    /\ \E kind1 \in {"none", "started", "custom"}, kind2 \in {"none", "custom"} :
           user_data = Session(1, kind1) @@ Session(2, kind2)
    /\ GLOBAL_MARKETS = InitialGlobalMarkets
    /\ chain \in Chains
    /\ NoJobs
    /\ \E request \in BotFetchCalls \cup ScriptFetchCalls : call = request @@ [now |-> 1]
    /\ result = NoResult
    /\ pc = "ready"

\* the report is returned and the global lists are what the call left
Fetched(fetched) ==
    /\ result' = NoResult @@ [report |-> fetched.results]
    /\ GLOBAL_MARKETS' = fetched.GLOBAL_MARKETS

FetchPositions ==
    /\ pc = "ready" /\ call.op = "fetch" /\ call.impl = "bot"
    /\ Fetched(fetch_positions(call.address, call.chat_id, call.now))
    /\ pc' = "done"
    /\ UNCHANGED <<call, user_data, chain, jobs, keyboards>>

FetchAllPositions ==
    /\ pc = "ready" /\ call.op = "fetch" /\ call.impl = "script"
    /\ result' = NoResult @@ [report |-> fetch_all_positions]
    /\ pc' = "done"
    /\ UNCHANGED <<call, user_data, GLOBAL_MARKETS, chain, jobs, keyboards>>

\* the next request arrives once the report is out: fetch_positions does not
\* await, so no other handler runs inside it
NextRequest ==
    /\ pc = "done"
    /\ Arrives(IF call.now < MaxTime THEN call.now + 1 ELSE MaxTime)
    /\ result' = NoResult
    /\ pc' = "ready"
    /\ UNCHANGED <<user_data, GLOBAL_MARKETS, chain, jobs, keyboards>>

BatchNext == FetchPositions \/ FetchAllPositions \/ NextRequest

BatchSpec == BatchInit /\ [][BatchNext]_vars

----------------------------------------------------------------------------
(* The chat sessions of the bot. Every update of a chat is served by its    *)
(* handler from start to end: the handlers change user_data and the job     *)
(* queue before their first await that follows a read, so one handler is    *)
(* one step. The job queue runs monitor_position for each job it holds.     *)
(* call is the update that was served last, result what its handler sent or *)
(* raised, jobs the job queue, keyboards the bag of messages that still     *)
(* carry an address keyboard. The chain reads of a report are the batch's   *)
(* above: a report is the address it is for and the markets it lists.       *)

MaxKeyboards == 1

MaxCustom == 1

\* the first chat uses every command; the other one adds one address,
\* monitors, checks and manages its own markets
Owner == CHOOSE chat_id \in Chats : \A other \in Chats : chat_id <= other

\* what follows /add and /remove: nothing, an address in either case, or a
\* string to_checksum_address rejects
AddressArgs == {<< >>, <<"0xA">>, <<"0xb">>, <<"bad">>}

\* plain texts: "bad" is 0x followed by 40 characters that are not hex digits
Texts == {"0xA", "0xb", "bad", "hello"}

\* what follows /addmarket
MarketArgs(chat_id) ==
    IF chat_id = Owner
    THEN {<< >>, <<"Vault", "A", "0xC0DE", "18">>, <<"Vault", "A", "bad", "18">>,
          <<"Vault", "A", "0xC0DE", "six">>}
    ELSE {<<"Vault", "B", "0xC0DE", "18">>}

\* the callback data market_button_callback tells apart; select_lending is
\* one of the buttons of /markets
MarketButtons ==
    {<<"list_custom_markets">>, <<"remove_market_menu">>, <<"select_lending">>}
    \cup {<<"remove_market_", index>> : index \in 0..MaxCustom}

\* separator.join(args)
RECURSIVE join(_, _)
join(separator, args) ==
    IF Len(args) <= 1 THEN IF args = << >> THEN "" ELSE args[1]
    ELSE args[1] \o separator \o join(separator, Tail(args))

\* str.lower() of the strings typed here; they hold nothing strip() removes
lower(text) ==
    CASE text = "0xA" -> "0xa"
      [] text = "0xB" -> "0xb"
      [] text = "0xC0DE" -> "0xc0de"
      [] OTHER -> text

\* w3.to_checksum_address accepts the string
is_address(address) == address \in {"0xa", "0xb", "0xc0de"}

\* int() accepts the string
is_int(text) == text \in {"6", "18"}

int(text) == IF text = "6" THEN 6 ELSE 18

\* the record /add and a plain-text address create
added_session == [addresses |-> << >>, active_address |-> "None", monitoring |-> FALSE]

\* the record /addmarket creates
empty_market_session == [addresses |-> << >>, active_address |-> "None", monitoring |-> FALSE, custom_markets |-> [lending |-> << >>, borrow |-> << >>]]

\* user_data once the chat has a record: `if chat_id not in user_data:`
with_session(chat_id, session) ==
    IF chat_id \in DOMAIN user_data THEN user_data ELSE user_data @@ (chat_id :> session)

Elements(list) == {list[i] : i \in DOMAIN list}

\* list.pop(index), counted from 0
pop(list, index) == [i \in 1..(Len(list) - 1) |-> IF i <= index THEN list[i] ELSE list[i + 1]]

\* list.remove(item) of an item the list holds once
remove(list, item) == SelectSeq(list, LAMBDA other : other # item)

\* the update is served: result is what the handler sent, or [raised |-> ...]
\* for the exception it raised
Serves(handler, chat_id, outcome) ==
    /\ call' = [op |-> "update", handler |-> handler, chat_id |-> chat_id]
    /\ result' = outcome
    /\ pc' = pc

Sent(reply) == [reply |-> reply]

\* the handler leaves these sessions and touches nothing else
Leaves(sessions) ==
    /\ user_data' = sessions
    /\ UNCHANGED <<GLOBAL_MARKETS, chain, jobs, keyboards>>

BotInit ==
    /\ user_data = << >>
    /\ GLOBAL_MARKETS = InitialGlobalMarkets
    /\ chain = << >>
    /\ NoJobs
    /\ call = [op |-> "update", handler |-> "main", chat_id |-> NoChat]
    /\ result = Sent("Bot started")
    /\ pc = "polling"

Start(chat_id) ==
    /\ Serves("start", chat_id, Sent("Welcome"))
    /\ Leaves(with_session(chat_id, started_session))

\* the sessions /add leaves and its reply
add_address(chat_id, args) ==
    IF args = << >>
    THEN [user_data |-> user_data, sent |-> Sent("Usage")]
    ELSE IF ~is_address(lower(join("", args)))
    THEN [user_data |-> user_data, sent |-> Sent("Invalid Ethereum address format")]
    ELSE IF lower(join("", args)) \in Elements(with_session(chat_id, added_session)[chat_id].addresses)
    THEN [user_data |-> with_session(chat_id, added_session),
          sent |-> Sent("Address already added")]
    ELSE [user_data |->
              [with_session(chat_id, added_session) EXCEPT
                   ![chat_id].addresses = Append(@, lower(join("", args))),
                   ![chat_id].active_address =
                       IF @ = "None" THEN lower(join("", args)) ELSE @],
          sent |-> Sent("Address added")]

AddAddress(chat_id, args) ==
    /\ Serves("add_address", chat_id, add_address(chat_id, args).sent)
    /\ Leaves(add_address(chat_id, args).user_data)

\* a text that does not look like an address is answered with the greeting
handle_message(chat_id, text) ==
    IF text # "hello"
    THEN IF ~is_address(lower(text))
         THEN [user_data |-> user_data, sent |-> Sent("Invalid Ethereum address format")]
         ELSE IF lower(text) \in Elements(with_session(chat_id, added_session)[chat_id].addresses)
         THEN [user_data |-> with_session(chat_id, added_session),
               sent |-> Sent("Address already added")]
         ELSE [user_data |->
                   [with_session(chat_id, added_session) EXCEPT
                        ![chat_id].addresses = Append(@, lower(text)),
                        ![chat_id].active_address = IF @ = "None" THEN lower(text) ELSE @],
               sent |-> Sent("Address added")]
    ELSE [user_data |-> user_data, sent |-> Sent("Send me an Ethereum address")]

HandleMessage(chat_id, text) ==
    /\ Serves("handle_message", chat_id, handle_message(chat_id, text).sent)
    /\ Leaves(handle_message(chat_id, text).user_data)

\* the chat has a record with an address in it
has_addresses(chat_id) ==
    IF chat_id \in DOMAIN user_data THEN user_data[chat_id].addresses # << >> ELSE FALSE

\* the chat has a record with an active address
has_active_address(chat_id) ==
    IF chat_id \in DOMAIN user_data THEN user_data[chat_id].active_address # "None" ELSE FALSE

\* one button per address of the chat, with callback data select_<address>
select_keyboard(chat_id) ==
    [chat_id |-> chat_id,
     buttons |-> {<<"select_", address>> : address \in Elements(user_data[chat_id].addresses)}]

SelectAddress(chat_id) ==
    /\ BagCardinality(keyboards) < MaxKeyboards
    /\ IF has_addresses(chat_id)
       THEN /\ keyboards' = keyboards (+) SetToBag({select_keyboard(chat_id)})
            /\ Serves("select_address", chat_id, Sent("Select an address"))
       ELSE /\ keyboards' = keyboards
            /\ Serves("select_address", chat_id, Sent("No addresses added yet"))
    /\ UNCHANGED <<user_data, GLOBAL_MARKETS, chain, jobs>>

\* a button of a keyboard that is still shown is pressed; the message is
\* edited and loses its keyboard
ButtonCallback(message, data) ==
    /\ user_data' = IF data[1] = "select_"
                    THEN [user_data EXCEPT ![message.chat_id].active_address = data[2]]
                    ELSE user_data
    /\ keyboards' = keyboards (-) SetToBag({message})
    /\ Serves("button_callback", message.chat_id, Sent("Active address set"))
    /\ UNCHANGED <<GLOBAL_MARKETS, chain, jobs>>

\* the sessions /remove leaves and its reply
remove_address(chat_id, args) ==
    IF args = << >>
    THEN [user_data |-> user_data, sent |-> Sent("Usage")]
    ELSE IF IF chat_id \in DOMAIN user_data
            THEN lower(join("", args)) \notin Elements(user_data[chat_id].addresses)
            ELSE TRUE
    THEN [user_data |-> user_data, sent |-> Sent("Address not found")]
    ELSE [user_data |->
              [user_data EXCEPT
                   ![chat_id].addresses = remove(@, lower(join("", args))),
                   ![chat_id].active_address =
                       IF @ # lower(join("", args)) THEN @
                       ELSE IF remove(user_data[chat_id].addresses, lower(join("", args))) # << >>
                       THEN remove(user_data[chat_id].addresses, lower(join("", args)))[1]
                       ELSE "None"],
          sent |-> Sent("Address removed")]

RemoveAddress(chat_id, args) ==
    /\ Serves("remove_address", chat_id, remove_address(chat_id, args).sent)
    /\ Leaves(remove_address(chat_id, args).user_data)

\* mutant: the jobs are removed whatever their name is
schedule_removal_of_any_name(chat_id) == SelectSeq(jobs, LAMBDA job : FALSE)

\* a job is the repeating job named monitor_<chat_id> with its data;
\* job_queue.get_jobs_by_name(f"monitor_{chat_id}"), schedule_removal() of each
schedule_removal(chat_id) == SelectSeq(jobs, LAMBDA job : job.chat_id # chat_id)

ToggleMonitoring(chat_id) ==
    /\ IF ~has_active_address(chat_id)
       THEN /\ UNCHANGED <<user_data, jobs>>
            /\ Serves("toggle_monitoring", chat_id, Sent("No active address"))
       ELSE IF user_data[chat_id].monitoring
       THEN /\ user_data' = [user_data EXCEPT ![chat_id].monitoring = FALSE]
            /\ jobs' = schedule_removal(chat_id)
            /\ Serves("toggle_monitoring", chat_id, Sent("Monitoring stopped"))
       ELSE /\ user_data' = [user_data EXCEPT ![chat_id].monitoring = TRUE]
            /\ jobs' = Append(jobs, [chat_id |-> chat_id,
                                     data |-> user_data[chat_id].active_address])
            /\ Serves("toggle_monitoring", chat_id, Sent("Monitoring started"))
    /\ UNCHANGED <<GLOBAL_MARKETS, chain, keyboards>>

\* the names of the markets a report lists, in order
names(markets) ==
    [lending |-> [i \in DOMAIN markets.lending |-> markets.lending[i].name],
     borrow |-> [i \in DOMAIN markets.borrow |-> markets.borrow[i].name]]

\* fetch_positions(address, chat_id) and the message made of it
Reports(handler, chat_id, address, got) ==
    /\ GLOBAL_MARKETS' = got.GLOBAL_MARKETS
    /\ Serves(handler, chat_id, [report |-> address, markets |-> names(got.markets)])

\* the job queue runs a job it holds
MonitorPosition(job) ==
    /\ IF IF jobs[job].chat_id \in DOMAIN user_data
          THEN user_data[jobs[job].chat_id].monitoring
          ELSE FALSE
       THEN Reports("monitor_position", jobs[job].chat_id, jobs[job].data,
                    get_markets_for_user(jobs[job].chat_id))
       ELSE /\ GLOBAL_MARKETS' = GLOBAL_MARKETS
            /\ Serves("monitor_position", jobs[job].chat_id, Sent("nothing"))
    /\ UNCHANGED <<user_data, chain, jobs, keyboards>>

CheckPosition(chat_id) ==
    /\ IF has_active_address(chat_id)
       THEN Reports("check_position", chat_id, user_data[chat_id].active_address,
                    get_markets_for_user(chat_id))
       ELSE /\ GLOBAL_MARKETS' = GLOBAL_MARKETS
            /\ Serves("check_position", chat_id, Sent("No active address"))
    /\ UNCHANGED <<user_data, chain, jobs, keyboards>>

ManageMarkets(chat_id) ==
    /\ user_data' = with_session(chat_id, started_session)
    /\ Serves("manage_markets", chat_id,
              IF "selected_markets" \in DOMAIN with_session(chat_id, started_session)[chat_id]
              THEN Sent("Market Selection")
              ELSE [raised |-> "KeyError"])
    /\ UNCHANGED <<GLOBAL_MARKETS, chain, jobs, keyboards>>

\* the market /addmarket appends, with the ABI file of the first global market
new_custom_market(args) ==
    [name |-> join(" ", SubSeq(args, 1, Len(args) - 2)), address |-> lower(args[Len(args) - 1]),
     abi_file |-> "USDhlFrontierLending.json", asset_decimals |-> int(args[Len(args)]),
     custom |-> TRUE]

\* the sessions /addmarket leaves, and its reply or the exception it raises
add_market_command(chat_id, args) ==
    IF Len(args) < 3
    THEN [user_data |-> user_data, sent |-> Sent("Usage")]
    ELSE IF ~is_int(args[Len(args)])
    THEN [user_data |-> user_data, sent |-> Sent("Decimals must be a number")]
    ELSE IF ~is_address(lower(args[Len(args) - 1]))
    THEN [user_data |-> user_data, sent |-> Sent("Invalid contract address format")]
    ELSE IF "custom_markets" \notin DOMAIN with_session(chat_id, empty_market_session)[chat_id]
    THEN [user_data |-> user_data, sent |-> [raised |-> "KeyError"]]
    ELSE [user_data |->
              [with_session(chat_id, empty_market_session) EXCEPT
                   ![chat_id].custom_markets.lending = Append(@, new_custom_market(args))],
          sent |-> Sent("Market added successfully")]

AddMarketCommand(chat_id, args) ==
    /\ Len(custom_markets(chat_id, "lending")) < MaxCustom
    /\ Serves("add_market_command", chat_id, add_market_command(chat_id, args).sent)
    /\ Leaves(add_market_command(chat_id, args).user_data)

\* the sessions a market button leaves, and the edit of the message or the
\* exception raised; the data that matches no branch is only answered
market_button_callback(chat_id, data) ==
    IF data[1] \in {"list_custom_markets", "remove_market_menu"}
    THEN [user_data |-> user_data,
          sent |-> IF chat_id \notin DOMAIN user_data
                   THEN Sent("You don't have any custom markets")
                   ELSE IF "custom_markets" \notin DOMAIN user_data[chat_id]
                   THEN [raised |-> "KeyError"]
                   ELSE IF user_data[chat_id].custom_markets.lending = << >>
                   THEN Sent("You don't have any custom markets")
                   ELSE Sent("Your custom markets")]
    ELSE IF data[1] = "remove_market_"
    THEN IF chat_id \notin DOMAIN user_data
         THEN [user_data |-> user_data, sent |-> Sent("answered")]
         ELSE IF "custom_markets" \notin DOMAIN user_data[chat_id]
         THEN [user_data |-> user_data, sent |-> [raised |-> "KeyError"]]
         ELSE IF data[2] < Len(user_data[chat_id].custom_markets.lending)
         THEN [user_data |-> [user_data EXCEPT ![chat_id].custom_markets.lending =
                                                   pop(@, data[2])],
               sent |-> Sent("Market removed")]
         ELSE [user_data |-> user_data, sent |-> Sent("answered")]
    ELSE [user_data |-> user_data, sent |-> Sent("answered")]

MarketButtonCallback(chat_id, data) ==
    /\ Serves("market_button_callback", chat_id, market_button_callback(chat_id, data).sent)
    /\ Leaves(market_button_callback(chat_id, data).user_data)

BotNext ==
    \/ \E chat_id \in {Owner} : Start(chat_id)
    \/ \E chat_id \in Chats : \E args \in (IF chat_id = Owner THEN AddressArgs ELSE {<<"0xb">>}) : AddAddress(chat_id, args)
    \/ \E text \in Texts : HandleMessage(Owner, text)
    \/ SelectAddress(Owner)
    \/ \E message \in BagToSet(keyboards) : \E data \in message.buttons : ButtonCallback(message, data)
    \/ \E args \in AddressArgs : RemoveAddress(Owner, args)
    \/ \E chat_id \in Chats : ToggleMonitoring(chat_id)
    \/ \E job \in DOMAIN jobs : MonitorPosition(job)
    \/ \E chat_id \in Chats : CheckPosition(chat_id)
    \/ ManageMarkets(Owner)
    \/ \E chat_id \in Chats : \E args \in MarketArgs(chat_id) : AddMarketCommand(chat_id, args)
    \/ \E chat_id \in Chats : \E data \in MarketButtons : MarketButtonCallback(chat_id, data)

BotSpec == BotInit /\ [][BotNext]_vars

----------------------------------------------------------------------------
(* Properties of one valuation *)

Position == result.position

Has(key) == key \in DOMAIN result.position

LendingDone == pc = "done" /\ call.op = "lending"

BorrowDone == pc = "done" /\ call.op = "borrow"

VaultReadsOk ==
    /\ call.contract.balanceOf.st = "ok"
    /\ call.contract.totalAssets.st = "ok"
    /\ call.contract.totalSupply.st = "ok"

BorrowReadsOk == call.contract.market.st = "ok" /\ call.contract.position.st = "ok"

\* the decimal value of a base-unit amount as the programs scale it
Scaled(amount, decimals) == PyTrueDiv(amount, PyPow10(decimals))

\* C1: a share balance of 0 gives value 0 tagged no-balance, whatever the vault
\* totals, the asset decimals and the conversion are.
C1_ZeroBalanceTagged ==
    (LendingDone /\ call.contract.balanceOf.st = "ok" /\ call.contract.balanceOf.val = 0)
    => /\ Has("assets_value") /\ FloatIsZero(Position.assets_value)
       /\ Has("calculation_method") /\ Position.calculation_method = "no-balance"

\* C2: once the convertToAssets call has returned, the result is the amount it
\* returned, scaled by the asset decimals and tagged convertToAssets, whatever
\* the vault totals are.
C2_DirectConversionPriority ==
    \A i \in DOMAIN result.calls :
        (LendingDone /\ result.calls[i].fn = "convertToAssets" /\ result.calls[i].ok)
        => /\ Has("assets_value") /\ Has("calculation_method")
           /\ Position.calculation_method = "convertToAssets"
           /\ Position.assets_value =
                  Scaled(convertToAssets(call.contract, result.calls[i].arg),
                         call.asset_decimals)

\* the conversion succeeds for a vault whose pool ratio gives another amount
C2_Witness ==
    /\ LendingDone /\ call.impl = "bot" /\ VaultReadsOk
    /\ call.contract.convertToAssets.st = "ok"
    /\ call.contract.balanceOf.val > 0 /\ call.contract.totalSupply.val > 0
    /\ (call.contract.balanceOf.val * call.contract.totalAssets.val)
           \div call.contract.totalSupply.val
       # (call.contract.balanceOf.val * call.contract.convertToAssets.num)
           \div call.contract.convertToAssets.den
    /\ Position.calculation_method = "convertToAssets"

\* C3: with a non-zero balance, no successful conversion and total shares > 0, the
\* result is (balance * total_assets) // total_shares scaled by the asset
\* decimals and tagged manual_ratio, never an error.
C3_PoolRatioFallback ==
    (/\ LendingDone /\ VaultReadsOk
     /\ call.contract.balanceOf.val > 0 /\ call.contract.totalSupply.val > 0
     /\ call.contract.convertToAssets.st # "ok")
    => /\ ~Has("error") /\ Has("assets_value") /\ Has("calculation_method")
       /\ Position.calculation_method = "manual_ratio"
       /\ Position.assets_value =
              Scaled(BigFloorDiv(BigMul(BigOf(call.contract.balanceOf.val),
                                        BigOf(call.contract.totalAssets.val)),
                                 BigOf(call.contract.totalSupply.val)),
                     call.asset_decimals)

\* C4: no conversion capability and total shares 0 give value 0 tagged
\* zero_supply for every balance s >= 0 and every total_assets.
C4_ZeroSupplyTagged ==
    (/\ LendingDone /\ VaultReadsOk
     /\ call.contract.convertToAssets.st = "absent"
     /\ call.contract.totalSupply.val = 0)
    => /\ Has("assets_value") /\ FloatIsZero(Position.assets_value)
       /\ Has("calculation_method") /\ Position.calculation_method = "zero_supply"

\* C5: when a read of the balance, the total assets or the total shares fails,
\* the result is an error result and carries no value.
C5_ReadFailureIsError ==
    \A i \in DOMAIN result.calls :
        (/\ LendingDone /\ ~result.calls[i].ok
         /\ result.calls[i].fn \in {"balanceOf", "totalAssets", "totalSupply"})
        => /\ Has("error") \/ Has("balance_error")
           /\ ~Has("assets_value")

\* C6: the borrowed amount is (borrow_shares * total_borrow_assets) //
\* total_borrow_shares scaled by the borrow decimals when both share counts are
\* positive, and 0 otherwise.
C6_BorrowedAmount ==
    (BorrowDone /\ BorrowReadsOk)
    => /\ Has("borrowed")
       /\ Position.borrowed =
              IF /\ call.contract.market.total_borrow_shares > 0
                 /\ call.contract.position.borrow_shares > 0
              THEN Scaled(BigFloorDiv(
                              BigMul(BigOf(call.contract.position.borrow_shares),
                                     BigOf(call.contract.market.total_borrow_assets)),
                              BigOf(call.contract.market.total_borrow_shares)),
                          call.borrow_decimals)
              ELSE FloatZero

\* 1 share of 2 with 2 borrowed in all: the product comes before the division
C6_Witness ==
    /\ BorrowDone /\ BorrowReadsOk
    /\ call.contract.position.borrow_shares = 1
    /\ call.contract.market.total_borrow_assets = 2
    /\ call.contract.market.total_borrow_shares = 2
    /\ FloatPositive(Position.borrowed)

\* C7: whenever the borrowed amount is 0, and so whenever the user holds no
\* borrow shares, the health factor is infinity, with or without collateral.
C7_NoDebtUnbounded ==
    (/\ BorrowDone /\ BorrowReadsOk
     /\ call.contract.position.borrow_shares = 0 \/ FloatIsZero(Position.borrowed))
    => Has("health_factor") /\ Position.health_factor = FloatInf

C7_Witness ==
    /\ BorrowDone /\ BorrowReadsOk
    /\ call.contract.position.borrow_shares = 0
    /\ call.contract.position.collateral = 0
    /\ call.contract.market.total_borrow_shares > 0
    /\ Position.health_factor = FloatInf

\* C8: a positive borrowed amount with no collateral gives the health factor 0.
C8_ZeroCollateralRatioZero ==
    (/\ BorrowDone /\ BorrowReadsOk
     /\ FloatPositive(Position.borrowed) /\ FloatIsZero(Position.collateral))
    => Has("health_factor") /\ FloatIsZero(Position.health_factor)

FloatHalf == [inf |-> FALSE, man |-> <<1>>, exp |-> -1]

FloatTwo == [inf |-> FALSE, man |-> <<1>>, exp |-> 1]

FloatFour == [inf |-> FALSE, man |-> <<1>>, exp |-> 2]

C9_Scenario ==
    /\ BorrowReadsOk
    /\ call.contract.market.total_borrow_assets = 1000000
    /\ call.contract.market.total_borrow_shares = 1000000
    /\ call.contract.position.borrow_shares = 500000
    /\ call.contract.position.collateral = 2000000
    /\ call.collateral_decimals = 6 /\ call.borrow_decimals = 6

\* C9: with debt and collateral both positive the health factor is the scaled
\* collateral divided by the scaled borrowed amount; the spec's scenario gives
\* borrowed 0.5, collateral 2.0 and ratio 4.0.
C9_HealthRatio ==
    (BorrowDone /\ BorrowReadsOk)
    => LET collateral == Scaled(BigOf(call.contract.position.collateral),
                                call.collateral_decimals)
           borrowed_wei ==
               IF /\ call.contract.market.total_borrow_shares > 0
                  /\ call.contract.position.borrow_shares > 0
               THEN BigFloorDiv(
                        BigMul(BigOf(call.contract.position.borrow_shares),
                               BigOf(call.contract.market.total_borrow_assets)),
                        BigOf(call.contract.market.total_borrow_shares))
               ELSE << >>
           borrowed == Scaled(borrowed_wei, call.borrow_decimals)
       IN  /\ (borrowed_wei # << >> /\ call.contract.position.collateral > 0)
              => /\ Has("health_factor")
                 /\ Position.health_factor = FloatDiv(collateral, borrowed)
           /\ C9_Scenario
              => /\ Position.borrowed = FloatHalf
                 /\ Position.collateral = FloatTwo
                 /\ Position.health_factor = FloatFour

C9_Witness ==
    BorrowDone /\ C9_Scenario /\ call.impl = "bot" /\ Position.health_factor = FloatFour

\* C10: decimals below 0 or above 77 make the valuation fail: the result is an
\* error and no asset, collateral or borrowed value comes out of it.
C10_InvalidDecimals ==
    /\ (LendingDone /\ VaultReadsOk /\ call.asset_decimals \notin 0..77)
       => Has("error") /\ ~Has("assets_value")
    /\ (/\ BorrowDone /\ BorrowReadsOk
        /\ call.collateral_decimals \notin 0..77 \/ call.borrow_decimals \notin 0..77)
       => Has("error") /\ ~Has("collateral") /\ ~Has("borrowed")

\* C12: with no direct conversion, a user who holds all the vault's shares is
\* valued at exactly total_assets scaled by the asset decimals, tagged
\* manual_ratio.
C12_SoleHolderExact ==
    (/\ LendingDone /\ VaultReadsOk
     /\ call.contract.convertToAssets.st = "absent"
     /\ call.contract.balanceOf.val > 0
     /\ call.contract.balanceOf.val = call.contract.totalSupply.val)
    => /\ Has("assets_value") /\ Has("calculation_method")
       /\ Position.calculation_method = "manual_ratio"
       /\ Position.assets_value =
              Scaled(BigOf(call.contract.totalAssets.val), call.asset_decimals)

\* C15: for decimals in 0..77, re-scaling the decimal value of an amount by
\* 10^decimals with truncation, int(value * 10 ** decimals), gives the amount
\* back: here the vault's total assets as the result reports them.
C15_RoundTrip ==
    (/\ LendingDone /\ call.asset_decimals \in 0..77
     /\ call.contract.totalAssets.st = "ok" /\ Has("vault_total_assets"))
    => PyIntTimes(Position.vault_total_assets, PyPow10(call.asset_decimals))
       = BigOf(call.contract.totalAssets.val)

\* C16: a vault valuation returns either an error result or a value with the
\* method tag that names how it was derived, never a value without a tag and
\* never a value together with an error.
C16_ResultShape ==
    LendingDone
    => /\ (Has("error") \/ Has("balance_error"))
          \/ (/\ Has("assets_value") /\ Has("calculation_method")
              /\ Position.calculation_method
                     \in {"no_balance", "convertToAssets", "manual_ratio", "zero_supply"})
       /\ Has("assets_value") => Has("calculation_method")
       /\ ~(Has("assets_value") /\ (Has("error") \/ Has("balance_error")))

\* C18: the direct-conversion call receives the share balance exactly as it was
\* read, and a value tagged manual_ratio is the single integer division
\* (balance * total_assets) // total_shares of the integers read, scaled once.
C18_ExactIntegers ==
    LendingDone
    => /\ \A i \in DOMAIN result.calls :
              result.calls[i].fn = "convertToAssets"
              => result.calls[i].arg = BigOf(call.contract.balanceOf.val)
       /\ (Has("calculation_method") /\ Position.calculation_method = "manual_ratio")
          => Position.assets_value =
                 PyTrueDiv(PyMulFloorDiv(BigOf(call.contract.balanceOf.val),
                                         BigOf(call.contract.totalAssets.val),
                                         BigOf(call.contract.totalSupply.val)),
                           PyPow10(call.asset_decimals))

\* C19: a share balance of 0 ends the valuation: convertToAssets is never called
\* and no method is computed, and the bot reads nothing after the balance.
C19_ZeroBalanceTerminal ==
    (LendingDone /\ call.contract.balanceOf.st = "ok" /\ call.contract.balanceOf.val = 0)
    => /\ \A i \in DOMAIN result.calls : result.calls[i].fn # "convertToAssets"
       /\ ~Has("calculation_method")
       /\ call.impl = "bot"
          => \A i \in DOMAIN result.calls : result.calls[i].fn = "balanceOf"

\* the bot on an empty balance in a vault whose totals and conversion all answer
C19_Witness ==
    /\ LendingDone /\ call.impl = "bot" /\ VaultReadsOk
    /\ call.contract.balanceOf.val = 0
    /\ call.contract.totalAssets.val > 0 /\ call.contract.totalSupply.val > 0
    /\ call.contract.convertToAssets.st = "ok"
    /\ Len(result.calls) = 1

\* C20: within one valuation no contract function is called twice, whether the
\* call returned or raised.
C20_NoRetries ==
    pc = "done"
    => \A i, j \in DOMAIN result.calls :
           result.calls[i].fn = result.calls[j].fn => i = j

\* a valuation that went on to the end after its conversion call raised
C20_Witness ==
    /\ LendingDone /\ VaultReadsOk
    /\ call.contract.convertToAssets.st = "fails"
    /\ call.contract.balanceOf.val > 0
    /\ Len(result.calls) = 4 /\ ~result.calls[4].ok
    /\ Has("assets_value")

----------------------------------------------------------------------------
(* Properties of two valuations that differ in one input *)

TwinDone == pc = "done" /\ "twin" \in DOMAIN result

Twin == result.twin

SameField(key) ==
    /\ key \in DOMAIN Position <=> key \in DOMAIN Twin
    /\ key \in DOMAIN Position => Position[key] = Twin[key]

\* C14: two borrow valuations of the bot that differ only in the borrow-share
\* decimals (both in 0..77) return the same borrowed amount, collateral amount
\* and health factor, and two borrow valuations of the script, which has no
\* borrow-share decimals, that differ only in the collateral decimals return
\* the same borrowed amount: no decimals parameter scales the share count
\* that enters the borrowed computation.
C14_ShareDecimalsIndependent ==
    (/\ TwinDone /\ call.op = "borrow"
     /\ call.borrow_shares_decimals \in 0..77 /\ call.twin_decimals \in 0..77)
    => /\ Has("borrowed") /\ SameField("borrowed")
       /\ call.impl = "bot" => SameField("collateral") /\ SameField("health_factor")

\* a debt of 1 share out of 2 valued with share decimals 18 and 0: the share
\* values differ, the borrowed amounts do not
C14_Witness ==
    /\ TwinDone /\ call.op = "borrow" /\ call.impl = "bot"
    /\ call.borrow_shares_decimals = 18 /\ call.twin_decimals = 0
    /\ call.contract.position.borrow_shares = 1
    /\ call.contract.market.total_borrow_assets = 2
    /\ call.contract.market.total_borrow_shares = 2
    /\ call.contract.position.collateral > 0
    /\ Position.borrow_shares # Twin.borrow_shares
    /\ FloatPositive(Position.borrowed)
    /\ Has("health_factor")

\* x <= y for two non-negative floats, compared exactly at the smaller exponent
FloatLe(x, y) ==
    \/ y.inf
    \/ /\ ~x.inf
       /\ LET e == IF x.exp < y.exp THEN x.exp ELSE y.exp
          IN  BigCmp(BigShl(x.man, x.exp - e), BigShl(y.man, y.exp - e)) <= 0

\* C13: with no direct conversion and a positive total supply, two valuations
\* of one vault whose share balances are s1 <= s2 (s1 = 0 included) both
\* return a value, and value(s1) <= value(s2).
C13_MonotoneInShares ==
    (/\ TwinDone /\ call.op = "lending"
     /\ call.contract.convertToAssets.st = "absent"
     /\ call.contract.totalSupply.val > 0
     /\ call.contract.balanceOf.val <= call.twin_balance)
    => /\ Has("assets_value") /\ "assets_value" \in DOMAIN Twin
       /\ FloatLe(Position.assets_value, Twin.assets_value)

----------------------------------------------------------------------------
(* Properties of a batch *)

FetchDone == pc = "done" /\ call.op = "fetch"

Report == result.report

\* the markets configured for the request: the script's own, or the global
\* markets followed by the chat's custom markets
ConfiguredMarkets ==
    IF call.impl = "script" THEN MARKETS
    ELSE [lending |-> InitialGlobalMarkets.lending \o custom_markets(call.chat_id, "lending"),
          borrow |-> InitialGlobalMarkets.borrow \o custom_markets(call.chat_id, "borrow")]

IsErrorResult(data) == "error" \in DOMAIN data \/ "balance_error" \in DOMAIN data

\* the entries are those of the markets, one each and in their order
OneEntryPerMarket(entries, markets) ==
    /\ DOMAIN entries = DOMAIN markets
    /\ \A i \in DOMAIN markets : entries[i].name = markets[i].name

\* C11: the report of a batch on a valid address has exactly one entry per
\* configured lending market and one per configured borrow market, in
\* configuration order, whatever markets fail to load or to be valued, and
\* every entry is either an error result or a success result carrying its
\* value, never both and never neither.
C11_BatchIsolation ==
    (FetchDone /\ call.address # "bad")
    => /\ OneEntryPerMarket(Report.lending, ConfiguredMarkets.lending)
       /\ OneEntryPerMarket(Report.borrow, ConfiguredMarkets.borrow)
       /\ \A i \in DOMAIN Report.lending :
              IsErrorResult(Report.lending[i].data)
              # ("assets_value" \in DOMAIN Report.lending[i].data)
       /\ \A i \in DOMAIN Report.borrow :
              IsErrorResult(Report.borrow[i].data)
              # ("borrowed" \in DOMAIN Report.borrow[i].data)

\* the report the request gets when it is served alone: the loops run on the
\* markets configured for it, with the chain as it is
ReportAlone ==
    IF call.impl = "script" THEN fetch_all_positions
    ELSE IF call.address = "bad" THEN Error("Invalid address format")
    ELSE bot_results(ConfiguredMarkets, call.address, call.now)

\* C17: serving a request leaves the session data of every chat and the
\* global market lists as they were, the global lists being the configured
\* ones, and returns the report the request gets when served alone,
\* whatever requests of other chats and addresses were served before it.
C17_Stateless ==
    [][(pc = "ready" /\ call.op = "fetch" /\ pc' = "done")
       => /\ user_data' = user_data
          /\ GLOBAL_MARKETS' = GLOBAL_MARKETS
          /\ GLOBAL_MARKETS = InitialGlobalMarkets
          /\ result'.report = ReportAlone]_vars

\* chat 2 is served after an earlier request while chat 1 has a custom market
\* too: its report ends with its own custom market, and chat 1's is not in it
C17_Witness ==
    /\ FetchDone /\ call.impl = "bot" /\ call.chat_id = 2 /\ call.address = "0xB"
    /\ call.now = MaxTime
    /\ custom_markets(1, "lending") # << >>
    /\ Len(Report.lending) = 3
    /\ Report.lending[3].name = "Custom 2"
    /\ GLOBAL_MARKETS = InitialGlobalMarkets

\* C21: a user who holds a positive number of borrow shares in a market whose
\* total borrow shares and total borrow assets are both positive is never
\* reported with a borrowed amount of 0 and an unbounded health factor.
C21_DebtorNeverDebtFree ==
    (/\ BorrowDone /\ BorrowReadsOk
     /\ call.collateral_decimals \in 0..77 /\ call.borrow_decimals \in 0..77
     /\ call.contract.position.borrow_shares > 0
     /\ call.contract.market.total_borrow_shares > 0
     /\ call.contract.market.total_borrow_assets > 0)
    => ~(/\ Has("borrowed") /\ FloatIsZero(Position.borrowed)
         /\ Has("health_factor") /\ Position.health_factor = FloatInf)

----------------------------------------------------------------------------
(* Properties of the chat sessions *)

\* the update served last
Handled(handler) == call.op = "update" /\ call.handler = handler

\* C22: after any sequence of updates of a chat, also a button press on a
\* keyboard that was shown before a later /remove, the chat's active address
\* is None or one of the chat's addresses.
C22_ActiveAddressListed ==
    \A chat_id \in DOMAIN user_data :
        \/ user_data[chat_id].active_address = "None"
        \/ user_data[chat_id].active_address \in Elements(user_data[chat_id].addresses)

\* the monitor jobs of a chat in the job queue
MonitorJobs(chat_id) == SelectSeq(jobs, LAMBDA job : job.chat_id = chat_id)

\* the chat's monitoring flag: user_data.get(chat_id, {}).get("monitoring", False)
Monitoring(chat_id) ==
    IF chat_id \in DOMAIN user_data THEN user_data[chat_id].monitoring ELSE FALSE

\* C23: after any sequence of updates each chat has at most one monitor job,
\* and it has one exactly when its monitoring flag is True.
C23_OneJobIffMonitoring ==
    \A chat_id \in Chats :
        /\ Len(MonitorJobs(chat_id)) <= 1
        /\ Len(MonitorJobs(chat_id)) = 1 <=> Monitoring(chat_id)

\* both chats monitor, and the first chat started after the other one
C23_Witness ==
    /\ \A chat_id \in Chats : Monitoring(chat_id) /\ Len(MonitorJobs(chat_id)) = 1
    /\ Handled("toggle_monitoring") /\ result = Sent("Monitoring started")
    /\ jobs[1].chat_id # Owner /\ jobs[2].chat_id = Owner

\* C24: in every reachable state where a chat's monitoring flag is True, one
\* /monitor of that chat turns the flag off and removes the chat's monitor
\* job, also after the chat has removed all of its addresses.
C24_MonitorTurnsOff ==
    [][\A chat_id \in Chats :
           (/\ Monitoring(chat_id)
            /\ call'.handler = "toggle_monitoring" /\ call'.chat_id = chat_id)
           => ~Monitoring(chat_id)' /\ MonitorJobs(chat_id)' = << >>]_vars

\* the update served last by this step is a report of the chat's monitor job
MonitorReports(chat_id) ==
    /\ call'.handler = "monitor_position" /\ call'.chat_id = chat_id
    /\ "report" \in DOMAIN result'

\* C25: every periodic report of a chat's monitor job is for the address that
\* is the chat's active address when the report is sent; once the active
\* address was changed by a selection or removed by /remove, no report is
\* sent for the old one.
C25_ReportsActiveAddress ==
    [][\A chat_id \in Chats :
           MonitorReports(chat_id) => result'.report = user_data'[chat_id].active_address]_vars

\* C26: whichever handler created a chat's session record, every later handler
\* of the chat finds the keys it reads: /markets, /addmarket and the market
\* buttons never fail on a missing selected_markets or custom_markets key.
C26_SessionKeysPresent ==
    "raised" \in DOMAIN result => result.raised # "KeyError"

\* the update served last is a report sent to the chat
Reported(chat_id) ==
    /\ Handled("check_position") \/ Handled("monitor_position")
    /\ call.chat_id = chat_id /\ "report" \in DOMAIN result

\* the names of the markets the chat has added and not removed
OwnMarkets(chat_id) ==
    [i \in DOMAIN custom_markets(chat_id, "lending") |->
         custom_markets(chat_id, "lending")[i].name]

\* what each chat typed after /addmarket
TypedNames(chat_id) ==
    {join(" ", SubSeq(args, 1, Len(args) - 2)) :
         args \in {typed \in MarketArgs(chat_id) : typed # << >>}}

\* C27: custom markets are isolated per chat: after any sequence of market
\* additions and removals and of reports of any chats, GLOBAL_MARKETS is the
\* configured literal, and the markets listed for a chat are the global
\* markets followed by exactly the chat's own custom markets, none of them a
\* market another chat added.
C27_CustomMarketsIsolated ==
    /\ GLOBAL_MARKETS = InitialGlobalMarkets
    /\ \A chat_id \in Chats :
           /\ Elements(OwnMarkets(chat_id)) \subseteq TypedNames(chat_id)
           /\ Reported(chat_id)
              => /\ result.markets.lending
                        = names(InitialGlobalMarkets).lending \o OwnMarkets(chat_id)
                 /\ result.markets.borrow = names(InitialGlobalMarkets).borrow

\* a chat is sent a report that lists its own custom market while the other
\* chat has a custom market too
C27_Witness ==
    /\ \A chat_id \in Chats : OwnMarkets(chat_id) # << >>
    /\ \E chat_id \in Chats : Reported(chat_id) /\ Len(result.markets.lending) = 3

=============================================================================
